---- MODULE Spec2Model ----
(***************************************************************************)
(* The task API of the Diary backend (express handlers over one Firestore  *)
(* collection "tasks").  Every handler is split at its awaits: the code    *)
(* between two awaits is one atomic step of the single-threaded runtime,   *)
(* and the steps of different requests interleave freely.                  *)
(***************************************************************************)
EXTENDS Integers, Sequences, FiniteSets, TLC

\* ------------------------------------------------------------------ bounds
MaxIds == 2        \* document ids the store can hand out
MaxClock == 1      \* the server clock runs over 0..MaxClock
MaxReqs == 3       \* requests that arrive in one behaviour

\* Clock units in one calendar day (setDate(getDate() + 1)).
DayLen == 2

Ids == 1..MaxIds
NoSuchId == 0      \* an id the store never handed out
Slots == {1, 2}   \* requests in flight at the same time

\* ------------------------------------------------------------------ values
\* A JSON / Firestore value: its type tag and an integer payload.
Str(n) == [k |-> "str", v |-> n]      \* text that is not a date ("" is Str(0))
Iso(n) == [k |-> "iso", v |-> n]      \* the ISO-8601 text of instant n
Bool(b) == [k |-> "bool", v |-> IF b THEN 1 ELSE 0]
Num(n) == [k |-> "num", v |-> n]
Ts(n) == [k |-> "ts", v |-> n]        \* a Firestore Timestamp (has toDate)
InvalidDate == [k |-> "invalid", v |-> 0]   \* a Date whose time value is NaN
Fixed1(n) == [k |-> "fixed1", v |-> n]  \* the text toFixed(1) prints for n/10

Title == Str(1)
Garbage == Str(2)
Yes == Str(3)
OtherId == Str(4)
DocId(i) == Str(10 + i)    \* the text of document id i

NoFields == [f \in {} |-> Str(0)]

\* JavaScript truthiness of a present value.
Truthy(x) ==
  CASE x.k = "bool" -> x.v = 1
    [] x.k = "num" -> x.v # 0
    [] x.k = "str" -> x.v # 0
    [] OTHER -> TRUE

\* key is one of Object.keys(obj)
Has(obj, key) == key \in DOMAIN obj

\* new Date(x) for a present x, as the Timestamp Firestore stores for it.
NewDate(x) ==
  CASE x.k = "iso" -> Ts(x.v)
    [] x.k = "ts" -> Ts(x.v)
    [] x.k = "num" -> Ts(x.v)
    [] x.k = "bool" -> Ts(x.v)
    [] OTHER -> InvalidDate

\* { ...a, ...b }: the fields of b win.
Spread(a, b) == b @@ a

\* The request bodies a client sends to POST /tasks ...
CreateBodies ==
  { [title |-> Title, date |-> Iso(1)],
    [date |-> Iso(1)],
    [title |-> Title],
    [title |-> Title, date |-> Iso(1), createdAt |-> Iso(0), id |-> OtherId] }

\* ... and to PUT /tasks/:id.
UpdateBodies ==
  { [completed |-> Bool(TRUE)],
    [completed |-> Yes, createdAt |-> Iso(0), id |-> OtherId],
    [date |-> Garbage] }

\* ------------------------------------------------------------------- state
VARIABLES
  store,    \* the "tasks" collection: document id -> fields
  born,     \* every id ever handed out -> [n: its place in write order, t: the clock its handler read]
  removed,  \* ids whose document a delete has removed
  now,      \* the server clock, as last read for a createdAt
  req,      \* the requests in flight, one per slot
  last,     \* the response the step just taken sent, with the request it answers
  nreq      \* requests that have arrived

vars == <<store, born, removed, now, req, last, nreq>>

NoStats == [totalTasks |-> 0, completedTasks |-> 0, todayTasks |-> 0,
            completionRate |-> Num(0)]

\* A request in flight: the handler's locals, and what happened to it so far
\* (stamp: the clock it read; seen: its document was there when it looked;
\* late: a delete had removed its document before it arrived; raced: its
\* document was gone when its write reached the store; wrote: its write
\* changed the store).
Idle ==
  [op |-> "none", pc |-> "idle", id |-> NoSuchId, body |-> NoFields, data |-> NoFields,
   stamp |-> 0, seen |-> FALSE, late |-> FALSE, raced |-> FALSE, wrote |-> FALSE]

\* res.status(status).json(...) for request r
Response(r, status) ==
  [op |-> r.op, id |-> r.id, body |-> r.body, status |-> status,
   docs |-> <<>>, stats |-> NoStats,
   seen |-> r.seen, late |-> r.late, raced |-> r.raced, wrote |-> r.wrote]

NoResponse == Response(Idle, 0)

Init ==
  /\ store = [i \in {} |-> NoFields]
  /\ born = [i \in {} |-> [n |-> 0, t |-> 0]]
  /\ removed = {}
  /\ now = 0
  /\ req = [s \in Slots |-> Idle]
  /\ last = NoResponse
  /\ nreq = 0

\* ------------------------------------------------------------ the store
\* taskDoc.exists
DocExists(st, id) == id \in DOMAIN st

\* if (!taskDoc.exists) return res.status(404) ..., in PUT and in DELETE
PutNotFoundSkipped(st, id) == FALSE
PutNotFound(st, id) == ~DocExists(st, id)

DeleteNotFoundSkipped(st, id) == FALSE
DeleteNotFound(st, id) == ~DocExists(st, id)

\* collection.add(data): the document is stored under a fresh id.
StoreAdd(st, id, data) == (id :> data) @@ st

\* Ids the store may assign: auto-ids never repeat.
FreshIds(used) == Ids \ used

\* add() and update() throw on a Date whose time value is NaN, before anything
\* is written (update() also throws on an empty field map, see PutTask_Check).
Rejected(data) == \E f \in DOMAIN data : data[f] = InvalidDate

\* docRef.update(data): fails with NOT_FOUND when the document is missing
\* (set(data, {merge: true}) would not).
UpdateMerges(st, id) == FALSE
UpdateFails(st, id) == id \notin DOMAIN st

\* docRef.update(data): the given fields overwrite, the others stay.
StoreUpdate(st, id, data) ==
  (id :> (IF id \in DOMAIN st THEN Spread(st[id], data) ELSE data)) @@ st

\* docRef.delete(): removes the document; succeeds when it is already missing.
StoreDelete(st, id) == [i \in DOMAIN st \ {id} |-> st[i]]

\* ------------------------------------------------------ convertTimestamps
ConvertValue(x) == IF Truthy(x) /\ x.k = "ts" THEN Iso(x.v) ELSE x

\* { id: doc.id, ...converted }
convertTimestamps(id, data) ==
  Spread([id |-> DocId(id)], [f \in DOMAIN data |-> ConvertValue(data[f])])

Shaped(st, id) == [ref |-> id, doc |-> convertTimestamps(id, st[id])]

\* ------------------------------------------------------------- GET /tasks
\* Firestore's order of values of different types, then by value.
TypeRank(x) ==
  CASE x.k = "bool" -> 1
    [] x.k = "num" -> 2
    [] x.k = "ts" -> 3
    [] x.k = "iso" -> 4
    [] OTHER -> 5

ValueLess(x, y) ==
  \/ TypeRank(x) < TypeRank(y)
  \/ TypeRank(x) = TypeRank(y) /\ x.v < y.v

\* orderBy('createdAt', 'desc'): i comes before j; equal keys fall back on
\* the document id, in the same direction.
OrderedAscending(st, i, j) ==
  \/ ValueLess(st[i].createdAt, st[j].createdAt)
  \/ st[j].createdAt = st[i].createdAt /\ i < j

OrderedBefore(st, i, j) ==
  \/ ValueLess(st[j].createdAt, st[i].createdAt)
  \/ st[j].createdAt = st[i].createdAt /\ j < i

RECURSIVE QueryOrder(_, _)
QueryOrder(st, S) ==
  IF S = {} THEN <<>>
  ELSE LET first == CHOOSE i \in S : \A j \in S \ {i} : OrderedBefore(st, i, j)
       IN <<first>> \o QueryOrder(st, S \ {first})

\* The query returns only documents that have the ordering field.
TasksQuery(st) == QueryOrder(st, {i \in DOMAIN st : Has(st[i], "createdAt")})

ListTasks(st) ==
  LET order == TasksQuery(st)
  IN [n \in 1..Len(order) |-> Shaped(st, order[n])]

\* ------------------------------------------------------------- GET /stats
\* (completedTasks / totalTasks * 100).toFixed(1), in tenths
ToFixed1(completed, total) == (2000 * completed + total) \div (2 * total)

StatsOf(st, clock) ==
  LET tasks == {Shaped(st, i) : i \in DOMAIN st}
      done == {t \in tasks : Has(t.doc, "completed") /\ Truthy(t.doc.completed)}
      today == clock - (clock % DayLen)
      tomorrow == today + DayLen
      due == {t \in tasks : /\ Has(t.doc, "date")
                            /\ NewDate(t.doc.date) # InvalidDate
                            /\ NewDate(t.doc.date).v >= today
                            /\ NewDate(t.doc.date).v < tomorrow}
      totalTasks == Cardinality(tasks)
      completedTasks == Cardinality(done)
  IN [totalTasks |-> totalTasks,
      completedTasks |-> completedTasks,
      todayTasks |-> Cardinality(due),
      completionRate |-> IF totalTasks > 0
                         THEN Fixed1(ToFixed1(completedTasks, totalTasks))
                         ELSE Num(0)]

\* ------------------------------------------------------------ POST /tasks
\* { ...req.body, date: new Date(req.body.date), createdAt: new Date(),
\*   completed: req.body.completed || false }
TaskDataCompleted(body, clock) ==
  Spread(body,
         [date |-> IF Has(body, "date") THEN NewDate(body.date) ELSE InvalidDate,
          createdAt |-> Ts(clock),
          completed |-> IF Has(body, "completed") /\ Truthy(body.completed)
                        THEN body.completed ELSE Bool(TRUE)])

TaskData(body, clock) ==
  Spread(body,
         [date |-> IF Has(body, "date") THEN NewDate(body.date) ELSE InvalidDate,
          createdAt |-> Ts(clock),
          completed |-> IF Has(body, "completed") /\ Truthy(body.completed)
                        THEN body.completed ELSE Bool(FALSE)])

\* ------------------------------------------------------- PUT /tasks/:id
\* { ...req.body } with a truthy date turned into a Date
UpdateData(body) ==
  IF Has(body, "date") /\ Truthy(body.date)
  THEN Spread(body, [date |-> NewDate(body.date)])
  ELSE body

\* ---------------------------------------------------------------- actions
\* A request arrives in the lowest slot that holds no request in flight.
Free(s) == req[s].pc = "idle"
Arrives(s) == Free(s) /\ (\A r \in Slots : r < s => ~Free(r)) /\ nreq < MaxReqs

\* new Date(): the clock never runs backwards, and need not have advanced
\* since it was last read.
Clock == now..MaxClock

\* The ids a client addresses: those it has seen in a response, or another.
Targets == DOMAIN born \cup {NoSuchId}

\* The handler of slot s goes on to its next await.
Goes(s, r) == req' = [req EXCEPT ![s] = r] /\ last' = NoResponse

\* The handler of slot s sends its response and ends.
Ends(s, response) == req' = [req EXCEPT ![s] = Idle] /\ last' = response

\* A handler's arrival and the store's answer to its first read are one step:
\* nothing before that read touches anything another request can see.
GetTasks(s) ==
  /\ Arrives(s)
  /\ Ends(s, [Response([Idle EXCEPT !.op = "list"], 200) EXCEPT !.docs = ListTasks(store)])
  /\ nreq' = nreq + 1
  /\ UNCHANGED <<store, born, removed, now>>

PostTasks_Begin(s) ==
  /\ Arrives(s)
  /\ \E body \in CreateBodies, t \in Clock :
       LET taskData == TaskData(body, t)
           r == [Idle EXCEPT !.op = "create", !.body = body]
       IN IF Rejected(taskData)
          THEN Ends(s, Response(r, 400)) /\ UNCHANGED now
          ELSE Goes(s, [r EXCEPT !.pc = "add", !.data = taskData, !.stamp = t]) /\ now' = t
  /\ nreq' = nreq + 1
  /\ UNCHANGED <<store, born, removed>>

PostTasks_Add(s) ==
  /\ req[s].op = "create" /\ req[s].pc = "add"
  /\ \E id \in FreshIds(DOMAIN born) :
       /\ store' = StoreAdd(store, id, req[s].data)
       /\ born' = (id :> [n |-> Cardinality(DOMAIN born) + 1,
                          t |-> req[s].stamp]) @@ born
       /\ Goes(s, [req[s] EXCEPT !.pc = "get", !.id = id, !.wrote = TRUE,
                                 !.data = NoFields])
  /\ UNCHANGED <<removed, now, nreq>>

\* convertTimestamps throws on a snapshot of a missing document.
PostTasks_Get(s) ==
  /\ req[s].op = "create" /\ req[s].pc = "get"
  /\ Ends(s, IF req[s].id \in DOMAIN store
             THEN [Response(req[s], 201) EXCEPT !.docs = <<Shaped(store, req[s].id)>>]
             ELSE Response(req[s], 400))
  /\ UNCHANGED <<store, born, removed, now, nreq>>

PutTask_Check(s) ==
  /\ Arrives(s)
  /\ \E id \in Targets, body \in UpdateBodies :
       LET updateData == UpdateData(body)
           r == [Idle EXCEPT !.op = "update", !.id = id, !.body = body,
                             !.seen = id \in DOMAIN store]
       IN IF PutNotFound(store, id) THEN Ends(s, Response(r, 404))
          ELSE IF updateData = NoFields \/ Rejected(updateData)
               THEN Ends(s, Response(r, 400))
               ELSE Goes(s, [r EXCEPT !.pc = "update", !.data = updateData])
  /\ nreq' = nreq + 1
  /\ UNCHANGED <<store, born, removed, now>>

PutTask_Update(s) ==
  /\ req[s].op = "update" /\ req[s].pc = "update"
  /\ LET r == [req[s] EXCEPT !.raced = req[s].id \notin DOMAIN store]
     IN IF UpdateFails(store, req[s].id)
        THEN /\ Ends(s, Response(r, 400))
             /\ UNCHANGED store
        ELSE /\ store' = StoreUpdate(store, req[s].id, req[s].data)
             /\ Goes(s, [r EXCEPT !.pc = "get", !.wrote = TRUE, !.data = NoFields])
  /\ UNCHANGED <<born, removed, now, nreq>>

PutTask_Get(s) ==
  /\ req[s].op = "update" /\ req[s].pc = "get"
  /\ Ends(s, IF req[s].id \in DOMAIN store
             THEN [Response(req[s], 200) EXCEPT !.docs = <<Shaped(store, req[s].id)>>]
             ELSE Response(req[s], 400))
  /\ UNCHANGED <<store, born, removed, now, nreq>>

DeleteTask_Check(s) ==
  /\ Arrives(s)
  /\ \E id \in Targets :
       LET r == [Idle EXCEPT !.op = "delete", !.id = id, !.late = id \in removed,
                             !.seen = id \in DOMAIN store]
       IN IF DeleteNotFound(store, id)
          THEN Ends(s, Response(r, 404))
          ELSE Goes(s, [r EXCEPT !.pc = "delete"])
  /\ nreq' = nreq + 1
  /\ UNCHANGED <<store, born, removed, now>>

DeleteTask_Delete(s) ==
  /\ req[s].op = "delete" /\ req[s].pc = "delete"
  /\ store' = StoreDelete(store, req[s].id)
  /\ removed' = removed \cup (DOMAIN store \ DOMAIN store')
  /\ Ends(s, Response([req[s] EXCEPT !.raced = req[s].id \notin DOMAIN store,
                                     !.wrote = store' # store], 200))
  /\ UNCHANGED <<born, now, nreq>>

GetStats(s) ==
  /\ Arrives(s)
  /\ \E t \in Clock :
       Ends(s, [Response([Idle EXCEPT !.op = "stats"], 200)
                  EXCEPT !.stats = StatsOf(store, t)])
  /\ nreq' = nreq + 1
  /\ UNCHANGED <<store, born, removed, now>>

Next ==
  \/ \E s \in Slots : GetTasks(s)
  \/ \E s \in Slots : PostTasks_Begin(s)
  \/ \E s \in Slots : PostTasks_Add(s)
  \/ \E s \in Slots : PostTasks_Get(s)
  \/ \E s \in Slots : PutTask_Check(s)
  \/ \E s \in Slots : PutTask_Update(s)
  \/ \E s \in Slots : PutTask_Get(s)
  \/ \E s \in Slots : DeleteTask_Check(s)
  \/ \E s \in Slots : DeleteTask_Delete(s)
  \/ \E s \in Slots : GetStats(s)

Spec == Init /\ [][Next]_vars

\* ------------------------------------------------------------ properties
Failed(status) == status \in {400, 404, 500}

\* Position of task i in a list response.
Place(docs, i) == CHOOSE n \in 1..Len(docs) : docs[n].ref = i

Listed(docs) == {docs[n].ref : n \in 1..Len(docs)}

\* Task i still carries the createdAt its Create gave it.
Untouched(i) == store[i].createdAt = Ts(born[i].t)

\* What a Delete answers, by what it found when it looked.
C1_DeleteAnswer ==
  last.op = "delete" =>
    /\ ~last.seen => last.status = 404 /\ ~last.wrote
    /\ last.seen => last.status = 200 /\ last.id \notin DOMAIN store
    /\ last.late => last.status = 404

C1_DeleteStep ==
  /\ last'.op = "delete" /\ last'.status = 404 => store' = store
  /\ \A s \in Slots :
       req[s].op = "delete" /\ req[s].pc = "delete" /\ req'[s].pc = "idle"
         => store' = [i \in DOMAIN store \ {req[s].id} |-> store[i]]

\* C1: a Delete whose document is not in the collection when it looks answers
\* 404 and changes nothing; a Delete whose document is there answers 200 and
\* the document is gone, no other document touched; a Delete that arrives
\* after a Delete has removed its document answers 404.
C1_Delete == []C1_DeleteAnswer /\ [][C1_DeleteStep]_vars

C1_Witness ==
  /\ last.op = "delete" /\ last.late /\ last.status = 404
  /\ last.id \in removed /\ ~last.seen /\ ~last.wrote

\* What an Update answers when its document was not there.
C2_UpdateAnswer ==
  last.op = "update" /\ ~last.seen => last.status = 404 /\ ~last.wrote

C2_UpdateStep ==
  /\ last'.op = "update" /\ ~last'.seen => store' = store
  /\ \A s \in Slots : req'[s].op = "update" => req'[s].seen

\* C2: an Update whose document is not in the collection when it looks answers
\* 404 and goes no further, and the collection after that step is the
\* collection before it, whatever the body.
C2_UpdateMissing == []C2_UpdateAnswer /\ [][C2_UpdateStep]_vars

C2_Witness ==
  /\ last.op = "update" /\ ~last.seen /\ last.status = 404
  /\ DOMAIN store # {} /\ Has(last.body, "id")

\* C3 as stated: when only Creates have run before a List, the List holds every
\* task, and a task written later stands before a task written earlier.
C3_CreationOrder ==
  last.op = "list" /\ nreq = Cardinality(DOMAIN born) + 1 =>
    /\ last.status = 200
    /\ Listed(last.docs) = DOMAIN store
    /\ \A a, b \in DOMAIN store :
         born[a].n < born[b].n => Place(last.docs, b) < Place(last.docs, a)

\* C3 as amended: a List answers 200 with every task of the collection once,
\* in descending order of createdAt (equal createdAt: descending id), so that
\* of two tasks that keep the createdAt of their Create, the one whose Create
\* read the later clock stands first; an empty collection gives an empty list.
C3_Listing ==
  last.op = "list" =>
    /\ last.status = 200
    /\ Listed(last.docs) = DOMAIN store
    /\ Len(last.docs) = Cardinality(DOMAIN store)
    /\ \A m, n \in 1..Len(last.docs) :
         m < n => LET a == store[last.docs[m].ref].createdAt
                      b == store[last.docs[n].ref].createdAt
                  IN \/ ValueLess(b, a)
                     \/ a = b /\ last.docs[n].ref < last.docs[m].ref
    /\ \A a, b \in DOMAIN store :
         Untouched(a) /\ Untouched(b) /\ born[a].t < born[b].t
           => Place(last.docs, b) < Place(last.docs, a)

C3_Witness ==
  /\ last.op = "list" /\ Len(last.docs) >= 2
  /\ \E a, b \in DOMAIN store :
       /\ born[a].n < born[b].n /\ born[a].t < born[b].t /\ b < a
       /\ Untouched(a) /\ Untouched(b)
       /\ Place(last.docs, b) < Place(last.docs, a)

\* C4: a Create whose body lacks title or lacks date answers 400 and stores
\* nothing.
C4_TitleAndDateRequired ==
  last.op = "create" /\ (~Has(last.body, "title") \/ ~Has(last.body, "date"))
    => last.status = 400 /\ ~last.wrote

\* What a Create of title and date alone answers with 201.
C5_CreateAnswer ==
  last.op = "create" /\ last.status = 201 /\ DOMAIN last.body = {"title", "date"} =>
    /\ last.wrote
    /\ Len(last.docs) = 1
    /\ last.docs[1].ref = last.id
    /\ last.docs[1].doc = convertTimestamps(last.id, store[last.id])
    /\ last.docs[1].doc.title = last.body.title

C5_CreateStep ==
  \A s \in Slots :
    /\ req[s].op = "create" /\ req[s].pc = "add" /\ req'[s].pc = "get"
    /\ DOMAIN req[s].body = {"title", "date"}
    => LET id == req'[s].id
       IN /\ id \notin DOMAIN store /\ id \notin DOMAIN born
          /\ DOMAIN store' = DOMAIN store \cup {id}
          /\ \A i \in DOMAIN store : store'[i] = store[i]
          /\ store'[id].completed = Bool(FALSE)
          /\ store'[id].title = req[s].body.title

\* C5: the write of a Create whose body holds title and date and nothing else
\* adds exactly one document, under an id no document has or ever had, with
\* completed = false and every other document untouched; when it answers 201
\* the body is that task, as the collection holds it.
C5_PlainCreate == []C5_CreateAnswer /\ [][C5_CreateStep]_vars

C5_Witness ==
  /\ last.op = "create" /\ last.status = 201 /\ DOMAIN last.body = {"title", "date"}
  /\ Cardinality(DOMAIN store) >= 2
  /\ last.docs[1].doc.completed = Bool(FALSE)

\* C6: Stats answers totalTasks = the number of tasks, completedTasks = the
\* number of tasks whose completed is the boolean true, and completionRate =
\* completedTasks / totalTasks * 100 to one decimal place, or 0 for no task.
C6_Stats ==
  last.op = "stats" =>
    LET total == Cardinality(DOMAIN store)
        completed == Cardinality({i \in DOMAIN store :
                       Has(store[i], "completed") /\ store[i].completed = Bool(TRUE)})
    IN /\ last.stats.totalTasks = total
       /\ last.stats.completedTasks = completed
       /\ last.stats.completionRate.v =
            IF total = 0 THEN 0 ELSE (2000 * completed + total) \div (2 * total)

\* C7: in every task a response carries, the value under id is the id of the
\* document the task was read from.
C7_ShapedId ==
  \A n \in 1..Len(last.docs) : last.docs[n].doc.id = DocId(last.docs[n].ref)

\* C8: the createdAt of every task is, at all times, the clock its Create read.
C8_CreatedAtFixed == \A i \in DOMAIN store : Untouched(i)

\* C9 as stated: a write that finds its document deleted since the existence
\* check is not applied and answers a store error, 400 for Update and 500 for
\* Delete.
C9_RaceIsAnError ==
  last.raced =>
    /\ ~last.wrote
    /\ last.op = "update" => last.status = 400
    /\ last.op = "delete" => last.status = 500

\* C9 as amended: such a write is not applied; the Update answers 400, the
\* Delete answers 200; an Update or Delete that reaches the store changes it
\* exactly when its document is still there, and no removed document is ever
\* in the collection again.
C9_Race ==
  /\ last.raced =>
       /\ ~last.wrote
       /\ last.op = "update" => last.status = 400
       /\ last.op = "delete" => last.status = 200
  /\ \A s \in Slots : ~req[s].raced
  /\ \A s \in Slots : req[s].op = "update" /\ req[s].pc = "get" => req[s].wrote
  /\ last.op = "delete" /\ last.status = 200 => (last.wrote <=> ~last.raced)
  /\ removed \cap DOMAIN store = {}

C9_Witness ==
  /\ last.op = "update" /\ last.seen /\ last.raced /\ last.status = 400
  /\ last.id \in removed

\* C10: a Create, Update or Delete that answers 400, 404 or 500 has not
\* changed the collection.
C10_FailureChangesNothing == Failed(last.status) => ~last.wrote

====
